---- MODULE Spec2Model ----
(***************************************************************************)
(* Verification model of three parts of the operators crate:               *)
(*   - reform::args::Scheme::new, the layout normalisation of a strided    *)
(*     copy (src/operators/src/reform/args.rs);                            *)
(*   - handle::opencl::KernelCache, the pooled kernel cache                *)
(*     (src/operators/src/handle/opencl/mod.rs);                           *)
(*   - rope::opencl::Operator scheme/launch, the dispatch parameter choice *)
(*     (src/operators/src/rope/opencl/mod.rs).                             *)
(***************************************************************************)
EXTENDS Integers, Sequences, FiniteSets, TLC

VARIABLES
    \* reform: the Args handed to Scheme::new and what it returned
    dst_layout, src_layout, scheme, spc,
    \* KernelCache: the registered names, each name's pool (top first), the
    \* threads holding the RwLock for reading and the one holding it for writing
    registered, pools, readers, writer,
    \* per thread: its position, the name argument, the kernel in a local
    \* variable or argument, what its last get_kernel returned and from where,
    \* the kernels the caller holds
    pc, name, local, ret, held,
    \* kernels specialized so far, kernels destroyed
    nextId, dropped,
    \* history: names get_kernel was called with, names a get_kernel call
    \* returned for, names get_kernel returned a kernel for, per name the kernel of a set_kernel no get_kernel has
    \* followed yet, names whose pool survived a second registration, per thread
    \* how its last set_kernel ended and what had happened to the name before
    getCalled, getReturned, gotSome, lastSet, reinserted, setSeen,
    \* rope: the Meta of the Args, what scheme and launch returned, the
    \* caller's position
    rargs, rplan, rlaunch, rpc

schemeVars == <<dst_layout, src_layout, scheme, spc>>
cacheVars == <<registered, pools, readers, writer, pc, name, local, ret, held,
               nextId, dropped, getCalled, getReturned, gotSome, lastSet, reinserted, setSeen>>
ropeVars == <<rargs, rplan, rlaunch, rpc>>
vars == <<schemeVars, cacheVars, ropeVars>>
\* what the steps of one part leave alone
notScheme == <<cacheVars, ropeVars>>
notCache == <<schemeVars, ropeVars>>

----------------------------------------------------------------------------
(* Bounds of the reform inputs.                                            *)

\* largest rank of the contiguous and of the transposed layouts
MaxRank == 4
\* dimension lengths are drawn from 0..MaxLen
MaxLen == 2
\* byte size of the F16 element type used by test_scheme
F16Bytes == 2
\* byte size of a second element type, used for the dtype mismatch case
F32Bytes == 4

\* byte strides, as signed multiples of the element size (0 = broadcast)
DstStrideSet == {F16Bytes * m : m \in {-1, 0, 1, 2, 4, 8}}
SrcStrideSet == {F16Bytes * m : m \in {-1, 0, 1, 2, 4}}
Lens == 0..MaxLen

----------------------------------------------------------------------------
(* Helpers on sequences.                                                   *)

RECURSIVE Product(_)
Product(s) == IF s = <<>> THEN 1 ELSE Head(s) * Product(Tail(s))

----------------------------------------------------------------------------
(* reform::args                                                            *)

\* TensorLayout: dtype byte size, shape and byte strides (all static)
Layout(nbytes, shape, strides) ==
    [nbytes |-> nbytes, shape |-> shape, strides |-> strides]

Err(msg) == [st |-> "err", err |-> msg, layout |-> <<>>]
Ok(layout) == [st |-> "ok", err |-> "", layout |-> layout]
Panic(msg) == [st |-> "panic", err |-> msg, layout |-> <<>>]
NotRun == [st |-> "none", err |-> "", layout |-> <<>>]

\* Args::meta: same dtype, rank >= 2, same rank, mergeable shapes
Meta(d, s) ==
    IF s.nbytes # d.nbytes THEN "err"
    ELSE IF Len(d.shape) < 2 \/ Len(s.shape) # Len(d.shape) THEN "err"
    ELSE IF \E i \in 1..Len(d.shape) : d.shape[i] # s.shape[i] THEN "err"
    ELSE "ok"

\* the struct Dim of Scheme::new
Dim(len, dst, src) == [len |-> len, dst |-> dst, src |-> src]

\* a variant of Kept that also looks at dimensions of length 1
KeptAll(dim) == TRUE

\* which dimensions the input loop looks at and pushes to dims
Kept(dim) == dim.len # 1

\* the test on a kept dimension: its destination stride is 0
Reducing(dim) == dim.dst = 0

\* the filter of the packing loop: the dimensions not merged away, in order
RECURSIVE KeptDims(_)
KeptDims(s) ==
    IF s = <<>> THEN <<>>
    ELSE IF Kept(Head(s)) THEN <<Head(s)>> \o KeptDims(Tail(s))
         ELSE KeptDims(Tail(s))

\* the input loop from dimension i on, with the dims pushed so far: the
\* first failing dimension decides the error
RECURSIVE InputDims(_, _, _, _)
InputDims(d, s, i, dims) ==
    IF i > Len(d.shape) THEN [st |-> "ok", err |-> "", dims |-> dims]
    ELSE IF d.shape[i] # s.shape[i]
         THEN [st |-> "err", err |-> "shape", dims |-> <<>>]
    ELSE LET dim == Dim(d.shape[i], d.strides[i], s.strides[i])
         IN IF Kept(dim)
            THEN IF Reducing(dim)
                 THEN [st |-> "err", err |-> "Reducing is not allowed for reform.",
                       dims |-> <<>>]
                 ELSE InputDims(d, s, i + 1, Append(dims, dim))
            ELSE InputDims(d, s, i + 1, dims)

\* a variant of DimLess that orders by the source stride first
DimLessBySrc(a, b) ==
    IF a.src # b.src THEN a.src > b.src
    ELSE IF a.dst # b.dst THEN a.dst > b.dst
    ELSE a.len < b.len

\* impl Ord for Dim: dst descending, then src descending, then len ascending
DimLess(a, b) ==
    IF a.dst # b.dst THEN a.dst > b.dst
    ELSE IF a.src # b.src THEN a.src > b.src
    ELSE a.len < b.len

RECURSIVE Insert(_, _)
Insert(x, s) ==
    IF s = <<>> THEN <<x>>
    ELSE IF DimLess(x, Head(s)) \/ x = Head(s) THEN <<x>> \o s
         ELSE <<Head(s)>> \o Insert(x, Tail(s))

\* a variant of Sort that leaves the dimensions in the order of the input
SortNone(s) == s

\* dims.sort_unstable(): equal elements are identical records, so the order
\* of the result is determined by the comparison alone
RECURSIVE Sort(_)
Sort(s) == IF s = <<>> THEN <<>> ELSE Insert(Head(s), Sort(Tail(s)))

\* the test of the first merging loop
FoldsIntoUnit(dim, unit) == dim.dst = unit /\ dim.src = unit

\* a variant of FoldUnit that drops the trailing dimensions without
\* multiplying their lengths into unit
RECURSIVE FoldUnitKeep(_, _, _)
FoldUnitKeep(dims, unit, ndim) ==
    IF ndim = 0 THEN [unit |-> unit, ndim |-> 0]
    ELSE IF dims[ndim].dst = unit /\ dims[ndim].src = unit
         THEN FoldUnitKeep(dims, unit, ndim - 1)
         ELSE [unit |-> unit, ndim |-> ndim]

\* a variant of FoldUnit that skips the loop
FoldUnitNone(dims, unit, ndim) == [unit |-> unit, ndim |-> ndim]

\* the first merging loop: trailing dimensions go into unit
RECURSIVE FoldUnit(_, _, _)
FoldUnit(dims, unit, ndim) ==
    IF ndim = 0 THEN [unit |-> unit, ndim |-> 0]
    ELSE IF FoldsIntoUnit(dims[ndim], unit)
         THEN FoldUnit(dims, unit * dims[ndim].len, ndim - 1)
         ELSE [unit |-> unit, ndim |-> ndim]

\* the test of the second merging loop: f is the front, b the back
Contiguous(f, b) == b.dst * b.len = f.dst /\ b.src * b.len = f.src

\* the second merging loop, i from dims.len() - 1 down to 1 (0-based);
\* here f = dims[i], b = dims[i + 1] (1-based)
RECURSIVE Coalesce(_, _, _)
Coalesce(dims, ndim, i) ==
    IF i <= 0 THEN [dims |-> dims, ndim |-> ndim]
    ELSE LET f == dims[i]
             b == dims[i + 1]
         IN IF Contiguous(f, b)
            THEN Coalesce([dims EXCEPT ![i] = Dim(b.len * f.len, b.dst, b.src),
                                       ![i + 1] = Dim(1, 0, 0)],
                          ndim - 1, i - 1)
            ELSE Coalesce(dims, ndim, i - 1)

\* the writes of the packing loop; an index past the end of the vector panics
RECURSIVE PackFrom(_, _, _, _)
PackFrom(layout, rest, ndim, i) ==
    IF rest = <<>> THEN Ok(layout)
    ELSE IF 1 + ndim * 2 + i >= Len(layout) THEN Panic("index out of bounds")
    ELSE PackFrom([layout EXCEPT ![1 + 1 + i] = Head(rest).len,
                                 ![1 + 1 + ndim + i] = Head(rest).dst,
                                 ![1 + 1 + ndim * 2 + i] = Head(rest).src],
                  Tail(rest), ndim, i + 1)

\* the packed vector: unit, then ndim lengths, dst strides, src strides
Pack(unit, dims, ndim) ==
    PackFrom([k \in 1..(1 + ndim * 3) |-> IF k = 1 THEN unit ELSE 0],
             KeptDims(dims), ndim, 0)

\* Scheme::new
SchemeNew(d, s) ==
    IF s.nbytes # d.nbytes THEN Err("dtype")
    ELSE IF Len(s.shape) # Len(d.shape) THEN Err("ndim")
    ELSE LET in == InputDims(d, s, 1, <<>>)
         IN IF in.st = "err" THEN Err(in.err)
            ELSE LET dims == Sort(in.dims)
                     u == FoldUnit(dims, d.nbytes, Len(dims))
                     cut == SubSeq(dims, 1, u.ndim)
                     m == Coalesce(cut, u.ndim, Len(cut) - 1)
                 IN Pack(u.unit, m.dims, m.ndim)

\* Scheme::ndim, unit, shape, dst_strides, src_strides
Ndim(sch) == (Len(sch.layout) - 1) \div 3
Unit(sch) == sch.layout[1]
Shape(sch) == SubSeq(sch.layout, 2, 1 + Ndim(sch))
DstStrides(sch) == SubSeq(sch.layout, 2 + Ndim(sch), 1 + 2 * Ndim(sch))
SrcStrides(sch) == SubSeq(sch.layout, 2 + 2 * Ndim(sch), 1 + 3 * Ndim(sch))

----------------------------------------------------------------------------
(* handle::opencl::KernelCache                                             *)

\* threads that share one KernelCache
NThreads == 2
\* kernels the program is asked to specialize, at most
MaxKernels == 2

Threads == 1..NThreads
\* kernel names callers use; the program has no entry point "missing"
Names == {"rope_f32", "missing"}
ProgramKernels == {"rope_f32"}
\* no kernel (Option::None), no thread
None == 0

\* Program::get_kernel(name) is Some
HasEntry(n) == n \in ProgramKernels

\* Pool::push and Pool::pop: a free list, the last pushed is popped first
PoolPush(pool, k) == <<k>> \o pool
PoolTop(pool) == Head(pool)
PoolPop(pool) == Tail(pool)

\* a variant of PoolHit that never finds a kernel in the pool
PoolHitNever(n) == FALSE

\* kernels.get(name) of get_kernel finds a pool and pool.pop() a kernel
PoolHit(n) == n \in registered /\ pools[n] # <<>>

\* a variant of SetFinds in which every name has a pool
SetFindsAlways(n) == TRUE

\* kernels.get(name) of set_kernel finds a pool
SetFinds(n) == n \in registered

\* a variant of Inserted that puts a new pool in place of an existing one
InsertedFresh(n) == <<>>

\* kernels.entry(name).or_insert_with(Pool::new): the pool of the name after it
Inserted(n) == IF n \in registered THEN pools[n] ELSE <<>>

\* the result of get_kernel: a kernel popped from the pool, a kernel
\* specialized from the program, or nothing
Popped(k) == [kernel |-> k, from |-> "pool"]
Specialized(k) == [kernel |-> k, from |-> "program"]
Nothing == [kernel |-> None, from |-> "none"]

\* what is recorded of a thread's last set_kernel: none made, or none since
\* the thread's last call
NotSeen == [done |-> "none", called |-> FALSE, returned |-> FALSE, some |-> FALSE]

\* calls in progress that may still ask the program for a kernel
Pending == Cardinality({t \in Threads : pc[t] \in {"get_read", "get_lookup", "get_fresh_read", "get_fresh"}})

CacheInit ==
    /\ registered = {}
    /\ pools = [n \in Names |-> <<>>]
    /\ readers = {}
    /\ writer = None
    /\ pc = [t \in Threads |-> "idle"]
    /\ name = [t \in Threads |-> "rope_f32"]
    /\ local = [t \in Threads |-> None]
    /\ held = [t \in Threads |-> {}]
    /\ nextId = 0
    /\ dropped = {}
    /\ getCalled = {}
    /\ getReturned = {}
    /\ gotSome = {}
    /\ lastSet = [n \in Names |-> None]
    /\ reinserted = {}
    /\ ret = [t \in Threads |-> Nothing]
    /\ setSeen = [t \in Threads |-> NotSeen]

\* a caller enters get_kernel(n)
CallGet(t, n) ==
    /\ pc[t] = "idle"
    /\ \/ nextId + Pending < MaxKernels
       \/ Pending = 0 /\ PoolHit(n)
    /\ pc' = [pc EXCEPT ![t] = "get_read"]
    /\ name' = [name EXCEPT ![t] = n]
    /\ ret' = [ret EXCEPT ![t] = Nothing]
    /\ getCalled' = getCalled \cup {n}
    /\ setSeen' = [setSeen EXCEPT ![t] = NotSeen]
    /\ UNCHANGED <<registered, pools, readers, writer, local, held, nextId, dropped,
                   getReturned, gotSome, lastSet, reinserted>>
    /\ UNCHANGED notCache

\* get_kernel: self.kernels.read()
GetRead(t) ==
    /\ pc[t] = "get_read"
    /\ writer = None
    /\ readers' = readers \cup {t}
    /\ pc' = [pc EXCEPT ![t] = "get_lookup"]
    /\ UNCHANGED <<registered, pools, writer, name, local, ret, held, nextId, dropped,
                   getCalled, getReturned, gotSome, lastSet, reinserted, setSeen>>
    /\ UNCHANGED notCache

\* a variant of GuardDropped that keeps the read guard
GuardKept(t) == readers

\* drop(kernels): the holders of the shared lock after t dropped its guard
GuardDropped(t) == readers \ {t}

\* get_kernel: kernels.get(name); with a pool, pool.pop() and, when it gives a
\* kernel, the return of it; without a pool, drop(kernels)
GetLookup(t) ==
    /\ pc[t] = "get_lookup"
    /\ LET n == name[t]
       IN IF PoolHit(n)
          THEN /\ pools' = [pools EXCEPT ![n] = PoolPop(pools[n])]
               /\ ret' = [ret EXCEPT ![t] = Popped(PoolTop(pools[n]))]
               /\ held' = [held EXCEPT ![t] = held[t] \cup {PoolTop(pools[n])}]
               /\ readers' = readers \ {t}
               /\ gotSome' = gotSome \cup {n}
               /\ getReturned' = getReturned \cup {n}
               /\ lastSet' = [lastSet EXCEPT ![n] = None]
               /\ pc' = [pc EXCEPT ![t] = "idle"]
          ELSE IF n \in registered
          THEN /\ pc' = [pc EXCEPT ![t] = "get_fresh_read"]
               /\ lastSet' = [lastSet EXCEPT ![n] = None]
               /\ UNCHANGED <<pools, ret, held, readers, gotSome, getReturned>>
          ELSE /\ pc' = [pc EXCEPT ![t] = "get_fresh"]
               /\ readers' = GuardDropped(t)
               /\ lastSet' = [lastSet EXCEPT ![n] = None]
               /\ UNCHANGED <<pools, ret, held, gotSome, getReturned>>
    /\ UNCHANGED <<registered, writer, name, local, nextId, dropped, getCalled, reinserted,
                   setSeen>>
    /\ UNCHANGED notCache

\* get_kernel: the or_else of an empty pool, program.get_kernel under the
\* read lock, and the return of its result
GetFreshRead(t) ==
    /\ pc[t] = "get_fresh_read"
    /\ IF HasEntry(name[t])
       THEN /\ nextId' = nextId + 1
            /\ ret' = [ret EXCEPT ![t] = Specialized(nextId + 1)]
            /\ held' = [held EXCEPT ![t] = held[t] \cup {nextId + 1}]
            /\ gotSome' = gotSome \cup {name[t]}
       ELSE UNCHANGED <<nextId, ret, held, gotSome>>
    /\ getReturned' = getReturned \cup {name[t]}
    /\ readers' = readers \ {t}
    /\ pc' = [pc EXCEPT ![t] = "idle"]
    /\ UNCHANGED <<registered, pools, writer, name, local, dropped, getCalled, lastSet,
                   reinserted, setSeen>>
    /\ UNCHANGED notCache

\* get_kernel: program.get_kernel(name)? for a name without a pool
GetFresh(t) ==
    /\ pc[t] = "get_fresh"
    /\ IF HasEntry(name[t])
       THEN /\ nextId' = nextId + 1
            /\ local' = [local EXCEPT ![t] = nextId + 1]
            /\ pc' = [pc EXCEPT ![t] = "get_write"]
            /\ UNCHANGED getReturned
       ELSE /\ pc' = [pc EXCEPT ![t] = "idle"]
            /\ getReturned' = getReturned \cup {name[t]}
            /\ UNCHANGED <<nextId, local>>
    /\ UNCHANGED <<registered, pools, readers, writer, name, ret, held, dropped,
                   getCalled, gotSome, lastSet, reinserted, setSeen>>
    /\ UNCHANGED notCache

\* get_kernel: self.kernels.write()
GetWrite(t) ==
    /\ pc[t] = "get_write"
    /\ writer = None
    /\ readers = {}
    /\ writer' = t
    /\ pc' = [pc EXCEPT ![t] = "get_insert"]
    /\ UNCHANGED <<registered, pools, readers, name, local, ret, held, nextId, dropped,
                   getCalled, getReturned, gotSome, lastSet, reinserted, setSeen>>
    /\ UNCHANGED notCache

\* get_kernel: kernels.entry(name).or_insert_with(Pool::new), Some(kernel),
\* and the write guard dropped on return
GetInsert(t) ==
    /\ pc[t] = "get_insert"
    /\ LET n == name[t]
       IN /\ pools' = [pools EXCEPT ![n] = Inserted(n)]
          /\ registered' = registered \cup {n}
          /\ gotSome' = gotSome \cup {n}
          /\ getReturned' = getReturned \cup {n}
          /\ reinserted' = IF n \in registered /\ pools[n] # <<>>
                            THEN reinserted \cup {n} ELSE reinserted
    /\ writer' = None
    /\ ret' = [ret EXCEPT ![t] = Specialized(local[t])]
    /\ held' = [held EXCEPT ![t] = held[t] \cup {local[t]}]
    /\ local' = [local EXCEPT ![t] = None]
    /\ pc' = [pc EXCEPT ![t] = "idle"]
    /\ UNCHANGED <<readers, name, nextId, dropped, getCalled, lastSet, setSeen>>
    /\ UNCHANGED notCache

\* a caller enters set_kernel(n, k) with a kernel it holds
CallSet(t, n, k) ==
    /\ pc[t] = "idle"
    /\ k \in held[t]
    /\ held' = [held EXCEPT ![t] = held[t] \ {k}]
    /\ local' = [local EXCEPT ![t] = k]
    /\ name' = [name EXCEPT ![t] = n]
    /\ pc' = [pc EXCEPT ![t] = "set_read"]
    /\ ret' = [ret EXCEPT ![t] = Nothing]
    /\ setSeen' = [setSeen EXCEPT ![t] = NotSeen]
    /\ UNCHANGED <<registered, pools, readers, writer, nextId, dropped,
                   getCalled, getReturned, gotSome, lastSet, reinserted>>
    /\ UNCHANGED notCache

\* set_kernel: self.kernels.read()
SetRead(t) ==
    /\ pc[t] = "set_read"
    /\ writer = None
    /\ readers' = readers \cup {t}
    /\ pc' = [pc EXCEPT ![t] = "set_push"]
    /\ UNCHANGED <<registered, pools, writer, name, local, ret, held, nextId, dropped,
                   getCalled, getReturned, gotSome, lastSet, reinserted, setSeen>>
    /\ UNCHANGED notCache

\* set_kernel: .get(name).unwrap().push(kernel); the unwrap of None panics,
\* and the unwinding drops the read guard, the kernel and what the caller holds
SetPush(t) ==
    /\ pc[t] = "set_push"
    /\ LET n == name[t]
       IN IF SetFinds(n)
          THEN /\ pools' = [pools EXCEPT ![n] = PoolPush(pools[n], local[t])]
               /\ lastSet' = [lastSet EXCEPT ![n] = local[t]]
               /\ pc' = [pc EXCEPT ![t] = "idle"]
               /\ UNCHANGED <<dropped, held>>
          ELSE /\ dropped' = dropped \cup {local[t]} \cup held[t]
               /\ held' = [held EXCEPT ![t] = {}]
               /\ pc' = [pc EXCEPT ![t] = "panicked"]
               /\ UNCHANGED <<pools, lastSet>>
    /\ setSeen' = [setSeen EXCEPT ![t] =
                       [done |-> IF SetFinds(name[t]) THEN "pushed" ELSE "panicked",
                        called |-> name[t] \in getCalled,
                        returned |-> name[t] \in getReturned,
                        some |-> name[t] \in gotSome]]
    /\ local' = [local EXCEPT ![t] = None]
    /\ readers' = readers \ {t}
    /\ UNCHANGED <<registered, writer, name, ret, nextId, getCalled, getReturned, gotSome, reinserted>>
    /\ UNCHANGED notCache

\* a caller drops a kernel it holds instead of returning it
DropKernel(t, k) ==
    /\ pc[t] = "idle"
    /\ k \in held[t]
    /\ held' = [held EXCEPT ![t] = held[t] \ {k}]
    /\ dropped' = dropped \cup {k}
    /\ UNCHANGED <<registered, pools, readers, writer, pc, name, local, ret, nextId,
                   getCalled, getReturned, gotSome, lastSet, reinserted, setSeen>>
    /\ UNCHANGED notCache

\* one step of thread t
ThreadNext(t) ==
    \/ \E n \in Names : CallGet(t, n)
    \/ GetRead(t)
    \/ GetLookup(t)
    \/ GetFreshRead(t)
    \/ GetFresh(t)
    \/ GetWrite(t)
    \/ GetInsert(t)
    \/ \E n \in Names, k \in 1..MaxKernels : CallSet(t, n, k)
    \/ SetRead(t)
    \/ SetPush(t)
    \/ \E k \in 1..MaxKernels : DropKernel(t, k)

----------------------------------------------------------------------------
(* rope::opencl::Operator                                                  *)

MAX_THREADS_PER_BLOCK == 512
\* head counts are drawn from 0..MaxNh and 32, the head count of test_compute
MaxNh == 8
\* head dimensions are drawn from 0..MaxDh and some larger ones
MaxDh == 8

\* digit_layout: byte size of a data type
Sizeof(dt) == CASE dt = "F16" -> 2 [] dt = "F32" -> 4 [] dt = "F64" -> 8
                [] dt = "U32" -> 4 [] dt = "U64" -> 8
\* size_of::<u32>()
SizeofU32 == 4

Min(a, b) == IF a <= b THEN a ELSE b
MaxOf(S) == CHOOSE x \in S : \A y \in S : y <= x

RopeErr(kind) == [st |-> "err", err |-> kind, global |-> <<>>, local |-> <<>>, size |-> 0]
RopePanic(msg) == [st |-> "panic", err |-> msg, global |-> <<>>, local |-> <<>>, size |-> 0]
RopeNotRun == [st |-> "none", err |-> "", global |-> <<>>, local |-> <<>>, size |-> 0]
\* Ok(0) of scheme
RopePlanned(size) == [st |-> "ok", err |-> "", global |-> <<>>, local |-> <<>>, size |-> size]
\* Ok(()) of launch, with the work sizes the kernel was enqueued with
RopeLaunched(global, local_) ==
    [st |-> "ok", err |-> "", global |-> global, local |-> local_, size |-> 0]

\* the dtype test of scheme
SchemeDtypeOk(dt_t, dt_p) == dt_t = "F32" \/ dt_p = "U32"

\* Operator::scheme
RopeSchemeOf(a) ==
    IF SchemeDtypeOk(a.dt_t, a.dt_p) THEN RopePlanned(0) ELSE RopeErr("type_not_support")

\* the dtype test of launch
LaunchDtypeOk(dt_t, dt_p) == ~(dt_t # "F32" \/ dt_p # "U32")

\* (1..=max_nh_l).rev().find(|nhl| nh % nhl == 0): the candidates
NhlCandidates(nh, max_nh_l) == {nhl \in 1..max_nh_l : nh % nhl = 0}

\* Operator::launch up to the enqueue: the result, with the work sizes
RopeLaunchOf(a) ==
    IF ~LaunchDtypeOk(a.dt_t, a.dt_p) THEN RopeErr("type_not_support")
    ELSE IF a.sd # Sizeof(a.dt_t) \/ a.sp # SizeofU32 THEN RopeErr("strides_not_support")
    ELSE LET dh == a.dh \div 2
         IN IF dh = 0 THEN RopePanic("remainder with a divisor of zero")
            ELSE IF MAX_THREADS_PER_BLOCK % dh # 0 THEN RopeErr("shape_not_support")
            ELSE LET max_nh_l == Min(MAX_THREADS_PER_BLOCK \div dh, a.nh)
                 IN IF NhlCandidates(a.nh, max_nh_l) = {}
                    THEN RopePanic("unwrap on None")
                    ELSE LET nh_l == MaxOf(NhlCandidates(a.nh, max_nh_l))
                             nh_h == a.nh \div nh_l
                         IN RopeLaunched(<<a.nt * nh_l, nh_h * dh>>, <<nh_l, dh>>)

RopeArgs ==
    [dt_t : {"F16", "F32", "F64"}, dt_p : {"U32", "U64"},
     nt : {0, 1, 7},
     nh : (0..MaxNh) \cup {32},
     dh : (0..MaxDh) \cup {64, 128, 512, 1024, 2048},
     sd : {Sizeof("F32"), Sizeof("F64")},
     sp : {SizeofU32, Sizeof("U64")}]

RopeInit ==
    /\ rargs \in RopeArgs
    /\ rplan = RopeNotRun
    /\ rlaunch = RopeNotRun
    /\ rpc = "new"

\* no rope call is made
RopeIdle ==
    /\ rargs = [dt_t |-> "F32", dt_p |-> "U32", nt |-> 7, nh |-> 32, dh |-> 64,
                sd |-> Sizeof("F32"), sp |-> SizeofU32]
    /\ rplan = RopeNotRun
    /\ rlaunch = RopeNotRun
    /\ rpc = "idle"

\* the caller plans: Operator::scheme
RopeScheme ==
    /\ rpc = "new"
    /\ rplan' = RopeSchemeOf(rargs)
    /\ rpc' = "planned"
    /\ UNCHANGED <<rargs, rlaunch>>
    /\ UNCHANGED <<schemeVars, cacheVars>>

\* the caller launches: Operator::launch; when the checks pass, the kernel
\* "rope_f32" is taken from the operator's KernelCache, a pool registered for
\* it the first time, and the kernel is put back after the enqueue
RopeLaunch ==
    /\ rpc \in {"new", "planned", "launched"}
    /\ rlaunch' = RopeLaunchOf(rargs)
    /\ rpc' = "launched"
    /\ IF rlaunch'.st = "ok"
       THEN LET n == "rope_f32"
                k == IF PoolHit(n) THEN PoolTop(pools[n]) ELSE nextId + 1
            IN /\ nextId' = IF PoolHit(n) THEN nextId ELSE nextId + 1
               /\ registered' = registered \cup {n}
               /\ pools' = [pools EXCEPT
                               ![n] = PoolPush(IF PoolHit(n) THEN PoolPop(pools[n])
                                                             ELSE Inserted(n), k)]
               /\ getCalled' = getCalled \cup {n}
               /\ getReturned' = getReturned \cup {n}
               /\ gotSome' = gotSome \cup {n}
               /\ lastSet' = [lastSet EXCEPT ![n] = k]
       ELSE UNCHANGED <<nextId, registered, pools, getCalled, getReturned, gotSome, lastSet>>
    /\ UNCHANGED <<rargs, rplan>>
    /\ UNCHANGED <<readers, writer, pc, name, local, ret, held, dropped, reinserted, setSeen>>
    /\ UNCHANGED schemeVars

----------------------------------------------------------------------------
(* The inputs of Scheme::new.                                              *)

\* the Args of test_scheme
TestShape == <<4, 3, 2, 1, 2, 3, 4>>
TestDst == Layout(F16Bytes, TestShape, <<288, 96, 48, 48, 24, 8, 2>>)
TestSrc == Layout(F16Bytes, TestShape, <<576, 192, 96, 48, 8, 16, 2>>)

\* TensorLayout::new_contiguous: row-major byte strides of a shape
RECURSIVE ContiguousStrides(_, _)
ContiguousStrides(nbytes, shape) ==
    IF shape = <<>> THEN <<>>
    ELSE <<nbytes * Product(Tail(shape))>> \o ContiguousStrides(nbytes, Tail(shape))

NewContiguous(nbytes, shape) == Layout(nbytes, shape, ContiguousStrides(nbytes, shape))

Shapes == UNION {[1..r -> Lens] : r \in 1..MaxRank}

Perms(r) == {p \in [1..r -> 1..r] : \A i, j \in 1..r : p[i] = p[j] => i = j}

\* the layout of a tensor stored contiguously with its dimensions in the
\* order p[1], p[2], ..., seen with the dimensions in the order 1, 2, ...
NewTransposed(nbytes, shape, p) ==
    LET r == Len(shape)
        stored == [k \in 1..r |-> shape[p[k]]]
        cs == ContiguousStrides(nbytes, stored)
    IN Layout(nbytes, shape, [i \in 1..r |-> cs[CHOOSE k \in 1..r : p[k] = i]])

\* same dtype, same shape, independent signed strides, rank 1 to 3
GeneralArgs ==
    \E r \in 1..3 :
        \E sh \in [1..r -> Lens], ds \in [1..r -> DstStrideSet], ss \in [1..r -> SrcStrideSet] :
            /\ dst_layout = Layout(F16Bytes, sh, ds)
            /\ src_layout = Layout(F16Bytes, sh, ss)

\* both layouts contiguous, of one dtype
ContiguousArgs ==
    \E nb \in {F16Bytes, F32Bytes}, sh \in Shapes \cup {TestShape} :
        /\ dst_layout = NewContiguous(nb, sh)
        /\ src_layout = NewContiguous(nb, sh)

\* a contiguous destination and a transposed source
TransposedArgs ==
    \E sh \in Shapes :
        \E p \in Perms(Len(sh)) :
            /\ dst_layout = NewContiguous(F16Bytes, sh)
            /\ src_layout = NewTransposed(F16Bytes, sh, p)

\* layouts that differ in dtype size, rank or shape, some with a destination
\* stride of 0
MismatchArgs ==
    \E nb \in {F16Bytes, F32Bytes},
       sh \in {<<2, 2>>, <<0, 2>>}, ds \in {<<4, 2>>, <<0, 2>>, <<4, 0>>},
       sh2 \in {<<2, 2>>, <<2, 3>>, <<3, 2>>, <<2, 2, 2>>} :
        /\ dst_layout = Layout(F16Bytes, sh, ds)
        /\ src_layout = NewContiguous(nb, sh2)

\* the Args of test_scheme
TestArgs == dst_layout = TestDst /\ src_layout = TestSrc

SchemeInit ==
    /\ GeneralArgs \/ ContiguousArgs \/ TransposedArgs \/ MismatchArgs \/ TestArgs
    /\ scheme = NotRun
    /\ spc = "args"

\* no Scheme::new call is made
SchemeIdle ==
    /\ TestArgs
    /\ scheme = NotRun
    /\ spc = "idle"

\* the caller runs Scheme::new on its Args
New ==
    /\ spc = "args"
    /\ scheme' = SchemeNew(dst_layout, src_layout)
    /\ spc' = "done"
    /\ UNCHANGED <<dst_layout, src_layout>>
    /\ UNCHANGED notScheme

Swap(s, i) ==
    [k \in 1..Len(s) |-> IF k = i THEN s[i + 1] ELSE IF k = i + 1 THEN s[i] ELSE s[k]]

SwapLayout(l, i) == Layout(l.nbytes, Swap(l.shape, i), Swap(l.strides, i))

\* the caller exchanges dimensions i and i + 1 of both layouts and runs
\* Scheme::new on the permuted Args
Transpose(i) ==
    /\ spc = "done"
    /\ i + 1 <= Len(dst_layout.shape)
    /\ i + 1 <= Len(src_layout.shape)
    /\ dst_layout' = SwapLayout(dst_layout, i)
    /\ src_layout' = SwapLayout(src_layout, i)
    /\ scheme' = SchemeNew(dst_layout', src_layout')
    /\ spc' = "redone"
    /\ UNCHANGED notScheme

SchemeNext ==
    \/ New
    \/ \E i \in 1..(Len(TestShape) - 1) : Transpose(i)

\* Scheme::new on the enumerated Args
InitScheme == SchemeInit /\ CacheInit /\ RopeIdle

SpecScheme == InitScheme /\ [][SchemeNext]_vars

\* threads calling get_kernel and set_kernel on one KernelCache
InitCache == SchemeIdle /\ CacheInit /\ RopeIdle

CacheNext == \E t \in Threads : ThreadNext(t)

SpecCache == InitCache /\ [][CacheNext]_vars

\* the steps of thread t inside a call: lock acquisitions and what follows
InCallStep(t) ==
    \/ GetRead(t)
    \/ GetLookup(t)
    \/ GetFreshRead(t)
    \/ GetFresh(t)
    \/ GetWrite(t)
    \/ GetInsert(t)
    \/ SetRead(t)
    \/ SetPush(t)

\* the scheduler runs every thread that can take a step inside its call;
\* callers need not make further calls
SpecCacheFair ==
    InitCache /\ [][CacheNext]_vars /\ \A t \in Threads : WF_vars(InCallStep(t))

\* one thread calling get_kernel and set_kernel on a KernelCache
SpecCacheSingle == InitCache /\ [][ThreadNext(1)]_vars

\* scheme and launch of the rope operator on the enumerated Args
InitRope == SchemeIdle /\ CacheInit /\ RopeInit

RopeNext == RopeScheme \/ RopeLaunch

SpecRope == InitRope /\ [][RopeNext]_vars

Spec == SpecCache

----------------------------------------------------------------------------
(* Claims about Scheme::new.                                               *)

Ran == spc \in {"done", "redone"}

\* the Dim of every input dimension
ArgDims ==
    [i \in 1..Len(dst_layout.shape) |->
        Dim(dst_layout.shape[i], dst_layout.strides[i], src_layout.strides[i])]

\* the dimensions of an emitted plan
PlanDims ==
    [i \in 1..Ndim(scheme) |->
        Dim(Shape(scheme)[i], DstStrides(scheme)[i], SrcStrides(scheme)[i])]

\* C1: on the Args of test_scheme (2-byte dtype, shape [4,3,2,1,2,3,4],
\* destination strides [288,96,48,48,24,8,2], source strides
\* [576,192,96,48,8,16,2]) Scheme::new succeeds with ndim = 3, unit = 8,
\* shape = [24,2,3], dst_strides = [48,24,8], src_strides = [96,8,16].
C1_TestScheme ==
    (spc = "done" /\ dst_layout = TestDst /\ src_layout = TestSrc) =>
        /\ scheme.st = "ok"
        /\ Ndim(scheme) = 3
        /\ Unit(scheme) = 8
        /\ Shape(scheme) = <<24, 2, 3>>
        /\ DstStrides(scheme) = <<48, 24, 8>>
        /\ SrcStrides(scheme) = <<96, 8, 16>>

C1_Witness ==
    spc = "done" /\ dst_layout = TestDst /\ src_layout = TestSrc /\ scheme.st = "ok"

\* the number of input dimensions whose length is not 1
NonUnitDims == Cardinality({i \in 1..Len(dst_layout.shape) : dst_layout.shape[i] # 1})

\* C2: for same-shape layouts of rank >= 2 (Args::meta accepts them) on which
\* Scheme::new succeeds, ndim is at most the number of input dimensions of
\* length other than 1, and unit * product(shape) is the number of elements
\* times the dtype size.
C2_PlanCoversAll ==
    (Ran /\ Meta(dst_layout, src_layout) = "ok" /\ scheme.st = "ok") =>
        /\ Ndim(scheme) <= NonUnitDims
        /\ Unit(scheme) * Product(Shape(scheme))
              = Product(dst_layout.shape) * dst_layout.nbytes

\* a plan in which a dimension went into unit and two others were merged
C2_Witness ==
    /\ spc = "done" /\ Meta(dst_layout, src_layout) = "ok" /\ scheme.st = "ok"
    /\ NonUnitDims = 3
    /\ Ndim(scheme) = 1
    /\ Unit(scheme) = 2 * dst_layout.nbytes
    /\ Product(Shape(scheme)) = 4

\* C3: exchanging two neighbouring dimensions of both layouts (and so any
\* permutation of the dimensions) leaves the outcome of Scheme::new as it
\* was: the same success or failure, on success the same unit, shape,
\* dst_strides and src_strides, and for layouts of one shape the same error.
C3_PermutationInvariant ==
    [][spc' = "redone" =>
          /\ scheme'.st = scheme.st
          /\ scheme'.layout = scheme.layout
          /\ dst_layout.shape = src_layout.shape => scheme'.err = scheme.err]_vars

\* a plan of two dimensions computed for Args whose dimensions were exchanged
\* and are not in the sorted order
C3_Witness ==
    /\ spc = "redone" /\ scheme.st = "ok" /\ Ndim(scheme) = 2
    /\ Len(dst_layout.shape) = 3
    /\ \E i \in 1..2 : DimLess(ArgDims[i + 1], ArgDims[i])

UnitLenZeroDst == \E i \in 1..Len(dst_layout.shape) :
    dst_layout.shape[i] = 1 /\ dst_layout.strides[i] = 0

ReducingErr == Err("Reducing is not allowed for reform.")

\* C4, as claimed: whenever some dimension has length 1 and destination
\* stride 0, Scheme::new fails with the 'Reducing is not allowed' error.
C4_UnitLenZeroStrideFails ==
    (Ran /\ Meta(dst_layout, src_layout) = "ok" /\ UnitLenZeroDst) => scheme = ReducingErr

\* C4, amended: for layouts Args::meta accepts, Scheme::new fails with the
\* 'Reducing is not allowed' error exactly when some dimension of length
\* other than 1 has destination stride 0; a dimension of length 1 is dropped
\* whatever its strides, and otherwise Scheme::new succeeds.
C4_ReducingIffKeptZeroStride ==
    (Ran /\ Meta(dst_layout, src_layout) = "ok") =>
        IF \E i \in 1..Len(ArgDims) : ArgDims[i].len # 1 /\ ArgDims[i].dst = 0
        THEN scheme = ReducingErr
        ELSE scheme.st = "ok"

\* a length-1 dimension of destination stride 0 was dropped and a plan emitted
C4_Witness ==
    /\ spc = "done" /\ Meta(dst_layout, src_layout) = "ok" /\ UnitLenZeroDst
    /\ scheme.st = "ok" /\ Ndim(scheme) = 1

BothContiguous ==
    /\ dst_layout = NewContiguous(dst_layout.nbytes, dst_layout.shape)
    /\ src_layout = NewContiguous(dst_layout.nbytes, dst_layout.shape)

\* C5: for every shape (the shape [4,3,2,1,2,3,4] of test_scheme among them)
\* with both layouts contiguous row-major of one dtype, Scheme::new yields
\* ndim = 0 and unit = number of elements * dtype size.
C5_ContiguousIsLinear ==
    (Ran /\ BothContiguous) =>
        /\ scheme.st = "ok"
        /\ Ndim(scheme) = 0
        /\ scheme.layout = <<Product(dst_layout.shape) * dst_layout.nbytes>>

\* C10: every emitted plan is fully reduced: its innermost dimension does not
\* have both strides equal to unit, no neighbouring pair (outer, inner) has
\* inner.dst * inner.len = outer.dst and inner.src * inner.len = outer.src,
\* and the packed vector of length 1 + 3 * ndim holds exactly ndim dimensions,
\* each of length other than 1 (the packing loop fills every slot and writes
\* past none).
C10_FullyReduced ==
    Ran =>
        /\ scheme.st # "panic"
        /\ scheme.st = "ok" =>
             LET n == Ndim(scheme)
             IN /\ Len(scheme.layout) = 1 + 3 * n
                /\ n >= 1 => ~FoldsIntoUnit(PlanDims[n], Unit(scheme))
                /\ \A i \in 1..(n - 1) : ~Contiguous(PlanDims[i], PlanDims[i + 1])
                /\ \A i \in 1..n : PlanDims[i].len # 1 /\ PlanDims[i].dst # 0

\* a plan left with two dimensions after one went into unit and two merged
C10_Witness ==
    /\ spc = "done" /\ scheme.st = "ok"
    /\ NonUnitDims = 4
    /\ Ndim(scheme) = 2
    /\ Unit(scheme) > dst_layout.nbytes

----------------------------------------------------------------------------
(* Claims about KernelCache.                                               *)

\* C6: with one thread using the cache, the get_kernel(N) that follows a
\* set_kernel(N, k) returns k, popped from N's pool, and asks the program for
\* nothing; the program is asked for a kernel only when N has no pool or an
\* empty one.
C6_RoundTrip ==
    [][\A t \in Threads :
        /\ (pc[t] = "get_lookup" /\ pc'[t] # "get_lookup" /\ lastSet[name[t]] # None) =>
              /\ pc'[t] = "idle"
              /\ ret'[t] = Popped(lastSet[name[t]])
              /\ held'[t] = held[t] \cup {lastSet[name[t]]}
              /\ nextId' = nextId
        /\ (pc'[t] # pc[t] /\ nextId' # nextId) =>
              (name[t] \notin registered \/ pools[name[t]] = <<>>)]_vars

\* get_kernel returned the kernel of the last set_kernel and left another
\* kernel in the pool
C6_Witness ==
    /\ pc[1] = "idle" /\ ret[1].from = "pool" /\ ret[1].kernel \in held[1]
    /\ pools[name[1]] # <<>>
    /\ ret[1].kernel > PoolTop(pools[name[1]])

\* C7, as claimed: set_kernel(N, k) pushes k when a get_kernel(N) call was
\* made on the cache before, whatever it returned, and panics when
\* get_kernel(N) was never called.
C7_PushIffGetCalled ==
    \A t \in Threads :
        /\ setSeen[t].returned => setSeen[t].done = "pushed"
        /\ (setSeen[t].done # "none" /\ ~setSeen[t].called) => setSeen[t].done = "panicked"

\* C7, amended: set_kernel(N, k) pushes k exactly when some get_kernel(N) on
\* the cache has already returned a kernel, which is when N has a pool; it
\* panics otherwise, also when get_kernel(N) was called and returned nothing
\* or has not yet registered the pool; a thread that panicked holds no lock.
C7_PushIffGetReturnedSome ==
    /\ registered = gotSome
    /\ \A t \in Threads :
          /\ setSeen[t].done # "none" =>
                (setSeen[t].done = "pushed" <=> setSeen[t].some)
          /\ pc[t] = "panicked" => (t \notin readers /\ writer # t)

\* set_kernel("missing", k) panicked after get_kernel("missing") had
\* returned nothing
C7_Witness ==
    \E t \in Threads :
        /\ pc[t] = "panicked" /\ name[t] = "missing"
        /\ setSeen[t] = [done |-> "panicked", called |-> TRUE, returned |-> TRUE,
                         some |-> FALSE]

\* in how many places kernel h is: pool slots, callers, local variables
InPools(h) ==
    Cardinality({<<n, i>> \in Names \X (1..MaxKernels) :
                    i <= Len(pools[n]) /\ pools[n][i] = h})

Places(h) ==
    InPools(h) + Cardinality({t \in Threads : h \in held[t]})
               + Cardinality({t \in Threads : local[t] = h})

OnePlaceEach ==
    \A h \in 1..MaxKernels :
        Places(h) = IF h <= nextId /\ h \notin dropped THEN 1 ELSE 0

\* pools are only added, and a pool changes by one push or one pop at its top
PoolsKept ==
    /\ registered \subseteq registered'
    /\ \A n \in registered :
          \/ pools'[n] = pools[n]
          \/ pools[n] # <<>> /\ pools'[n] = PoolPop(pools[n])
          \/ pools'[n] # <<>> /\ PoolPop(pools'[n]) = pools[n]

\* C8: under any interleaving of get_kernel and set_kernel calls every kernel
\* not dropped is in exactly one place, one pool slot or one caller; the
\* registered names only grow, and a pool keeps what was pushed until it is
\* popped, also when a second first-time registration of its name arrives.
C8_OneHolder == []OnePlaceEach /\ [][PoolsKept]_vars

\* a second registration of a name arrived at a pool that held a kernel
C8_Witness ==
    \E n \in reinserted : pools[n] # <<>>

----------------------------------------------------------------------------
(* Claims about the rope operator.                                         *)

Divides(d, m) == \E q \in 0..m : q * d = m

\* C9: in launch, with the limit 512, nh >= 1 and d = dh / 2: when d does
\* not divide 512 the launch fails with shape-not-supported; otherwise nh_l
\* is the largest divisor of nh with d * nh_l <= 512, nh_h * nh_l = nh, and
\* the local work size [nh_l, d] divides the global one [nt * nh_l, nh_h * d];
\* no nh or dh makes launch panic.
C9_LaunchDispatch ==
    (/\ rpc = "launched"
     /\ LaunchDtypeOk(rargs.dt_t, rargs.dt_p)
     /\ rargs.sd = Sizeof(rargs.dt_t) /\ rargs.sp = SizeofU32
     /\ rargs.nh >= 1) =>
        LET d == rargs.dh \div 2
            nh == rargs.nh
        IN /\ rlaunch.st # "panic"
           /\ IF ~Divides(d, MAX_THREADS_PER_BLOCK)
              THEN rlaunch = RopeErr("shape_not_support")
              ELSE /\ rlaunch.st = "ok"
                   /\ LET nh_l == rlaunch.local[1]
                          nh_h == rlaunch.global[2] \div d
                      IN /\ rlaunch.local = <<nh_l, d>>
                         /\ nh_l \in 1..nh /\ nh % nh_l = 0
                         /\ d * nh_l <= MAX_THREADS_PER_BLOCK
                         /\ \A x \in 1..nh :
                               (nh % x = 0 /\ d * x <= MAX_THREADS_PER_BLOCK) => x <= nh_l
                         /\ nh_h * nh_l = nh
                         /\ rlaunch.global = <<rargs.nt * nh_l, nh_h * d>>
                         /\ rlaunch.global[1] % nh_l = 0
                         /\ rlaunch.global[2] % d = 0

----------------------------------------------------------------------------
(* Claims about the locking of KernelCache.                                *)

InCall(t) == pc[t] \notin {"idle", "panicked"}

\* some caller enters get_kernel or set_kernel
NewCall == \E t \in Threads : pc[t] = "idle" /\ pc'[t] \in {"get_read", "set_read"}

\* who holds which lock at which position
LockDiscipline ==
    /\ writer # None => readers = {}
    /\ \A t \in Threads :
          /\ t \in readers <=> pc[t] \in {"get_lookup", "get_fresh_read", "set_push"}
          /\ writer = t <=> pc[t] = "get_insert"

\* a get_kernel that finds a pool for its name never asks for the exclusive
\* lock, and the exclusive lock is used to insert an empty pool only
LockSteps ==
    \A t \in Threads :
        /\ (pc[t] = "get_lookup" /\ name[t] \in registered) =>
              pc'[t] \in {"get_lookup", "get_fresh_read", "idle"}
        /\ (pc[t] = "get_lookup" /\ pc'[t] = "get_fresh") =>
              (name[t] \notin registered /\ t \notin readers')
        /\ writer = t =>
              \A n \in Names :
                  \/ pools'[n] = pools[n] /\ (n \in registered' <=> n \in registered)
                  \/ n = name[t] /\ n \notin registered /\ n \in registered'
                       /\ pools'[n] = <<>>
                  \/ n = name[t] /\ n \in registered /\ pools'[n] = pools[n]

\* some thread in a call can take its next step
NoDeadlock == (\E t \in Threads : InCall(t)) => \E t \in Threads : ENABLED InCallStep(t)

\* C11: every get_kernel and set_kernel call of any thread comes to its end
\* (set_kernel by its return or by the panic of its unwrap) unless callers
\* keep entering calls for ever, and no state is a deadlock: a get_kernel
\* for a registered name holds only the shared lock; for an unregistered
\* name it drops the shared lock before it asks for the exclusive one, which
\* it takes only to insert an empty pool; no thread waits for the exclusive
\* lock while it holds the shared lock.
C11_EveryCallReturns ==
    /\ [](LockDiscipline /\ NoDeadlock)
    /\ [][LockSteps]_vars
    /\ \/ []<><<NewCall>>_vars
       \/ \A t \in Threads : InCall(t) ~> ~InCall(t)

\* a thread waits for the exclusive lock while another holds the shared lock
C11_Witness ==
    \E t, u \in Threads :
        /\ pc[t] = "get_write" /\ t \notin readers
        /\ u # t /\ u \in readers

----------------------------------------------------------------------------
(* Claims about the dtype checks of the rope operator.                     *)

\* C12: scheme and launch agree on the data types: for every (dt_t, dt_p)
\* scheme returns Ok(0) exactly when the dtype check of launch passes
\* (dt_t = F32 and dt_p = U32) and type-not-supported otherwise, so no Args
\* that scheme accepted is rejected by launch with type-not-supported.
C12_SchemeAgreesWithLaunch ==
    /\ rplan.st # "none" =>
          IF LaunchDtypeOk(rargs.dt_t, rargs.dt_p)
          THEN rplan = RopePlanned(0)
          ELSE rplan = RopeErr("type_not_support")
    /\ (rplan.st = "ok" /\ rpc = "launched") => rlaunch # RopeErr("type_not_support")

====
